---------------------------- MODULE Spec2Model ----------------------------
(***************************************************************************)
(* WorkflowMax -> Dropbox folder sync (src/index.js).                      *)
(*                                                                         *)
(* The model follows the event-loop structure of the program: JavaScript   *)
(* runs a callback to its next `await` without interruption, so one action *)
(* of the model is one such segment of a handler (from the arrival of the  *)
(* awaited answer to the next request that is awaited).  The answers of    *)
(* the tracking system, of the token endpoint and of the storage service   *)
(* are the inputs, drawn with \E from what those services can answer.      *)
(*                                                                         *)
(* Text is modelled as a sequence of one-character strings.                *)
(* Time is in milliseconds since the start of the process (Date.now()).    *)
(***************************************************************************)
EXTENDS Integers, Sequences, FiniteSets, TLC

(***************************************************************************)
(* Bounds of the model                                                     *)
(***************************************************************************)
\* cron instants 0 .. MaxMinutes are modelled (one polling cycle each)
MaxMinutes == 1
\* milliseconds modelled after each cron instant
MaxOffset == 1
\* most items in one answer of the tracking system
MaxBatch == 1
\* most credentials the token endpoint issues in a run
MaxTokens == 2
\* most items in one answer of the tracking system in the runs of BatchSpec
MaxLongBatch == 2
\* most pieces a job title is put together from in the runs of FnSpec
MaxTitle == 4

(***************************************************************************)
(* Program constants                                                       *)
(***************************************************************************)
\* '*/1 * * * *': the cron fires every minute
CronPeriod == 60000
\* 24 * 60 * 60 * 1000: the initial look-back of lastChecked
LookBack == 86400000
\* the 60000 ms subtracted from the expiry in getValidAccessToken
SafetyMargin == 60000

(***************************************************************************)
(* Text                                                                    *)
(***************************************************************************)
Whitespace == {" ", "\t", "\n"}

Drop(s, n) == SubSeq(s, n + 1, Len(s))

IsPrefix(p, s) == Len(p) <= Len(s) /\ SubSeq(s, 1, Len(p)) = p

\* String.prototype.includes
Includes(s, p) == \E i \in 0..(Len(s) - Len(p)) : SubSeq(s, i + 1, i + Len(p)) = p

\* String.prototype.replace with a global pattern that is a literal text
RECURSIVE ReplaceAll(_, _, _)
ReplaceAll(s, pat, rep) ==
  IF s = <<>> THEN <<>>
  ELSE IF IsPrefix(pat, s) THEN rep \o ReplaceAll(Drop(s, Len(pat)), pat, rep)
  ELSE <<Head(s)>> \o ReplaceAll(Tail(s), pat, rep)

LowerCase == <<"a","b","c","d","e","f","g","h","i","j","k","l","m",
               "n","o","p","q","r","s","t","u","v","w","x","y","z">>
UpperCase == <<"A","B","C","D","E","F","G","H","I","J","K","L","M",
               "N","O","P","Q","R","S","T","U","V","W","X","Y","Z">>

ToUpperChar(ch) ==
  IF \E i \in 1..26 : LowerCase[i] = ch
  THEN UpperCase[CHOOSE i \in 1..26 : LowerCase[i] = ch]
  ELSE ch

\* String.prototype.toUpperCase
ToUpperCase(s) == [i \in 1..Len(s) |-> ToUpperChar(s[i])]

\* length of the leading run of whitespace
RECURSIVE WsLen(_)
WsLen(s) == IF s # <<>> /\ Head(s) \in Whitespace THEN 1 + WsLen(Tail(s)) ELSE 0

\* length of the match of /\s*\([^)]*\)/ at the start of s, 0 when it does not match there
ParenMatchLen(s) ==
  LET w    == WsLen(s)
      rest == Drop(s, w)
  IN  IF rest # <<>> /\ Head(rest) = "(" /\ (\E i \in 2..Len(rest) : rest[i] = ")")
      THEN w + (CHOOSE i \in 2..Len(rest) :
                  rest[i] = ")" /\ \A j \in 2..(i - 1) : rest[j] # ")")
      ELSE 0

\* .replace(/\s*\([^)]*\)/g, '')
RECURSIVE StripParens(_)
StripParens(s) ==
  IF s = <<>> THEN <<>>
  ELSE IF ParenMatchLen(s) > 0 THEN StripParens(Drop(s, ParenMatchLen(s)))
  ELSE <<Head(s)>> \o StripParens(Tail(s))

\* .replace(/\s+/g, ' ')
RECURSIVE CollapseSpaces(_)
CollapseSpaces(s) ==
  IF s = <<>> THEN <<>>
  ELSE IF Head(s) \in Whitespace THEN <<" ">> \o CollapseSpaces(Drop(s, WsLen(s)))
  ELSE <<Head(s)>> \o CollapseSpaces(Tail(s))

\* String.prototype.trim
RECURSIVE TrimEnd(_)
TrimEnd(s) ==
  IF s # <<>> /\ s[Len(s)] \in Whitespace THEN TrimEnd(SubSeq(s, 1, Len(s) - 1)) ELSE s

Trim(s) == TrimEnd(Drop(s, WsLen(s)))

\* String.prototype.split('_')[0]
RECURSIVE SplitFirst(_)
SplitFirst(s) ==
  IF s = <<>> \/ Head(s) = "_" THEN <<>> ELSE <<Head(s)>> \o SplitFirst(Tail(s))

DecodeEntities(s) ==
  LET s1 == ReplaceAll(s,  <<"&","a","m","p",";">>,     <<"&">>)
      s2 == ReplaceAll(s1, <<"&","l","t",";">>,         <<"<">>)
      s3 == ReplaceAll(s2, <<"&","g","t",";">>,         <<">">>)
      s4 == ReplaceAll(s3, <<"&","q","u","o","t",";">>, <<"\"">>)
  IN  ReplaceAll(s4, <<"&","#","3","9",";">>, <<"'">>)

\* formatJobName(jobNo, jobName)
formatJobName(jobNo, jobName) ==
  LET decoded    == DecodeEntities(jobName)
      stripped   == StripParens(decoded)
      hyphenated == ReplaceAll(stripped, <<"_">>, <<" ","-"," ">>)
      upper      == ToUpperCase(hyphenated)
      cleaned    == Trim(CollapseSpaces(upper))
  IN  jobNo \o <<" ","-"," ">> \o cleaned


(***************************************************************************)
(* JavaScript values that may be a text or undefined                       *)
(***************************************************************************)
Null == "null"

JsString(t) == [type |-> "string", text |-> t]

JsUndefined == [type |-> "undefined", text |-> <<>>]

(***************************************************************************)
(* Items the tracking system can return (job.ID, job.Name, job.DateCreated)*)
(***************************************************************************)
Job(id, name) == [ID |-> JsString(id), Name |-> JsString(name), DateCreated |-> "valid"]

\* an original job, as in the README's example 9000549
JobBase == Job(<<"9","5">>, <<"A","l">>)
\* its duplicated variant, as in the README's example 9000549_1
JobSuffixed == Job(<<"9","5","_","1">>, <<"A","l">>)
\* a job whose leading digit has no destination
JobUnrouted == Job(<<"1","5">>, <<"A","l">>)
\* an item without an ID field
JobNoID == [ID |-> JsUndefined, Name |-> JsString(<<"A","l">>), DateCreated |-> "valid"]

JobUniverse == {JobBase, JobSuffixed, JobUnrouted, JobNoID}

\* the `jobs` arrays a parsed answer can give
Batches == UNION {[1..n -> JobUniverse] : n \in 0..MaxBatch}

\* the longer `jobs` arrays
LongBatches == UNION {[1..n -> JobUniverse] : n \in 0..MaxLongBatch}

(***************************************************************************)
(* Destination categories: the keys of global.folderIds                    *)
(***************************************************************************)
Key25 == "ISA PROJECT JOBS (2-5)"
Key78 == "ISA SURVEY PTY LTD (7-8)"
Key69 == "ISA SURVEYORS PTY LTD (6 or 9)"
Keys == {Key25, Key78, Key69}

\* entry.path_lower of the namespace-root entry of a category
PathLower(k) ==
  CASE k = Key25 -> "/isa project jobs (2-5)"
    [] k = Key78 -> "/isa survey pty ltd (7-8)"
    [] k = Key69 -> "/isa surveyors pty ltd (6 or 9)"

Paths == {PathLower(k) : k \in Keys}

(***************************************************************************)
(* The persisted credential file wfx_tokens.json                           *)
(***************************************************************************)
\* readTokens() of a missing or unparsable file: {}
NoTokens == [access_token |-> 0, refresh_token |-> 0, expires_in |-> 0, obtained_at |-> 0]

\* expires_in (seconds) the token endpoint may answer
ExpiresIn == {60, 1800}

(***************************************************************************)
(* State                                                                   *)
(***************************************************************************)
VARIABLES
  clock,          \* Date.now(), ms since the process started
  lastChecked,    \* the checkpoint
  teamMemberId,   \* global.teamMemberId: "undefined", "null" or the member id
  folderIds,      \* global.folderIds: [defined, paths]; found: the categories the root
                  \* listing showed (history)
  startup,        \* position of the app.listen callback
  tokenFile,      \* content of wfx_tokens.json
  tokenEndpoint,  \* the token endpoint: credentials issued, refresh tokens it accepts
  oauth,          \* position of the /oauth/callback handler
  storage,        \* folders of the storage namespace: [parent, name]
  cyc,            \* the polling cycles, one per cron instant
  lastLog,        \* the outcome logged for the item processed last, and the answer it follows
  overlap,        \* history: two cycles have been active at the same time
  call            \* a call of a pure function on its own: [fn, arg, ret, done]

vars == <<clock, lastChecked, teamMemberId, folderIds, startup, tokenFile,
          tokenEndpoint, oauth, storage, cyc, lastLog, overlap, call>>

Minutes == 0..MaxMinutes

\* what the storage service answered for the item a cycle is working on (Head(jobs))
NoItem ==
  [exists |-> "none",      \* get_metadata answer: "none", "found", "not_found", "error"
   list |-> "none",        \* list_folder answer: "none", "full", "partial", "error"
   copy |-> "none",        \* copy_v2 answer
   creates |-> 0]          \* create_folder_v2 requests sent

\* no item has been processed yet
NoLog == [result |-> "none", answer |-> "none"]

\* no function is being called on its own
NoCall == [fn |-> "none", arg |-> <<>>, ret |-> <<>>, done |-> FALSE]

IdleCycle ==
  [pc |-> "idle", outcome |-> "none", lc0 |-> 0, lc1 |-> 0, since |-> 0, to |-> 0,
   tokens |-> NoTokens, data |-> NoTokens, jobs |-> <<>>, processedJobs |-> {},
   calls |-> [token |-> 0, fetch |-> 0, storage |-> 0], item |-> NoItem,
   tried |-> {}, failed |-> {}, response |-> "none", fetched |-> <<>>]

Active(m) == cyc[m].pc \notin {"idle", "done"}

Init ==
  /\ clock = 0
  /\ lastChecked = 0 - LookBack
  /\ teamMemberId = "undefined"
  /\ folderIds = [defined |-> FALSE, paths |-> <<>>, found |-> {}]
  /\ startup = "getTeamMembers"
  /\ tokenFile = NoTokens
  /\ tokenEndpoint = [issued |-> 0, valid |-> {}]
  /\ oauth = [pc |-> "idle", data |-> NoTokens]
  /\ storage = {}
  /\ cyc = [m \in Minutes |-> IdleCycle]
  /\ lastLog = NoLog
  /\ overlap = FALSE
  /\ call = NoCall

(***************************************************************************)
(* Time.  The cron callback of minute m runs at the instant m * CronPeriod;*)
(* time passes by one millisecond or to the next cron instant.             *)
(***************************************************************************)
Tick ==
  /\ clock % CronPeriod = 0 => cyc[clock \div CronPeriod].pc # "idle"
  /\ \E t \in {clock + 1, (clock \div CronPeriod + 1) * CronPeriod} :
       /\ t \div CronPeriod <= MaxMinutes
       /\ t % CronPeriod <= MaxOffset
       /\ clock' = t
  /\ UNCHANGED <<lastChecked, teamMemberId, folderIds, startup, tokenFile,
                 tokenEndpoint, oauth, storage, cyc, lastLog, overlap, call>>

(***************************************************************************)
(* Startup: the app.listen callback                                        *)
(***************************************************************************)
\* findTeamMemberByEmail(teamMembers, email): the member id, or null
findTeamMemberByEmail(teamMembers, email) ==
  IF \E mem \in teamMembers : mem.email = email
  THEN (CHOOSE mem \in teamMembers : mem.email = email).team_member_id
  ELSE Null

SelectUserEmail == "mings@isagroups.com.au"

\* what team/members/list can answer: getTeamMembers gives [] on an error or an empty team
TeamLists ==
  { {},
    {[email |-> "other@isagroups.com.au", team_member_id |-> "dbmid:2"]},
    {[email |-> SelectUserEmail, team_member_id |-> "dbmid:1"]} }

\* the answer of getTeamMembers arrives; the namespace root listing is requested
TeamMembersResp ==
  /\ startup = "getTeamMembers"
  /\ \E teamMembers \in TeamLists :
       IF teamMembers # {}
       THEN /\ teamMemberId' = findTeamMemberByEmail(teamMembers, SelectUserEmail)
            /\ startup' = IF teamMemberId' # Null THEN "list_folder" ELSE "done"
       ELSE /\ teamMemberId' = teamMemberId
            /\ startup' = "done"
  /\ UNCHANGED <<clock, lastChecked, folderIds, tokenFile, tokenEndpoint, oauth,
                 storage, cyc, lastLog, overlap, call>>

\* global.folderIds after a root listing in which the categories `found` have an entry
resolveFolderIds(found) ==
  IF found = Keys
  THEN [defined |-> TRUE, paths |-> [k \in Keys |-> PathLower(k)], found |-> found]
  ELSE [folderIds EXCEPT !.found = found]

\* the answer of the root list_folder arrives (an error answer finds nothing)
ListRootResp ==
  /\ startup = "list_folder"
  /\ \E found \in SUBSET Keys : folderIds' = resolveFolderIds(found)
  /\ startup' = "done"
  /\ UNCHANGED <<clock, lastChecked, teamMemberId, tokenFile, tokenEndpoint, oauth,
                 storage, cyc, lastLog, overlap, call>>

(***************************************************************************)
(* The token endpoint and the credential file                              *)
(***************************************************************************)
\* the `data` of a successful exchange: the next credential the endpoint issues
NewCredential(e) ==
  [access_token |-> tokenEndpoint.issued + 1, refresh_token |-> tokenEndpoint.issued + 1,
   expires_in |-> e, obtained_at |-> 0]

\* a variant that writes the credential as the endpoint sent it
writeTokens_Unstamped(tokens) == tokens

\* writeTokens(tokens): the stamp, before the file is written
writeTokens(tokens) == [tokens EXCEPT !.obtained_at = clock]

\* GET /oauth/callback with a code: the code is sent to the token endpoint
OAuthCallback ==
  /\ oauth.pc = "idle"
  /\ tokenEndpoint.issued < MaxTokens
  /\ oauth' = [oauth EXCEPT !.pc = "exchange"]
  /\ UNCHANGED <<clock, lastChecked, teamMemberId, folderIds, startup, tokenFile,
                 tokenEndpoint, storage, cyc, lastLog, overlap, call>>

\* the answer to the code exchange: tokens to be written, or "Token exchange failed"
OAuthExchangeResp ==
  /\ oauth.pc = "exchange"
  /\ \/ /\ tokenEndpoint.issued < MaxTokens
        /\ \E e \in ExpiresIn :
             /\ oauth' = [pc |-> "write", data |-> writeTokens(NewCredential(e))]
             /\ tokenEndpoint' = [issued |-> tokenEndpoint.issued + 1,
                                  valid  |-> tokenEndpoint.valid \cup {tokenEndpoint.issued + 1}]
     \/ /\ oauth' = [pc |-> "idle", data |-> NoTokens]
        /\ UNCHANGED tokenEndpoint
  /\ UNCHANGED <<clock, lastChecked, teamMemberId, folderIds, startup, tokenFile,
                 storage, cyc, lastLog, overlap, call>>

\* fs.writeFile of the handler ends: the file is written, or the write failed
OAuthWriteDone ==
  /\ oauth.pc = "write"
  /\ \/ tokenFile' = oauth.data
     \/ UNCHANGED tokenFile
  /\ oauth' = [pc |-> "idle", data |-> NoTokens]
  /\ UNCHANGED <<clock, lastChecked, teamMemberId, folderIds, startup,
                 tokenEndpoint, storage, cyc, lastLog, overlap, call>>


(***************************************************************************)
(* Routing and screening helpers                                           *)
(***************************************************************************)
\* global.folderIds[key]
FolderPath(key) == IF key \in DOMAIN folderIds.paths THEN folderIds.paths[key] ELSE Null

\* a variant with the tests '2345', '678' and '9'
selectDestinationFolder_Six78(jobNo) ==
  IF jobNo.type # "string" \/ jobNo.text = <<>> THEN Null
  ELSE LET p == Head(jobNo.text)
       IN  IF p \in {"2", "3", "4", "5"} THEN FolderPath(Key25)
           ELSE IF p \in {"6", "7", "8"} THEN FolderPath(Key78)
           ELSE IF p \in {"9"} THEN FolderPath(Key69)
           ELSE Null

\* selectDestinationFolder(jobNo): the destination path, or null
selectDestinationFolder(jobNo) ==
  IF jobNo.type # "string" \/ jobNo.text = <<>> THEN Null
  ELSE LET p == Head(jobNo.text)
       IN  IF p \in {"2", "3", "4", "5"} THEN FolderPath(Key25)
           ELSE IF p \in {"7", "8"} THEN FolderPath(Key78)
           ELSE IF p \in {"6", "9"} THEN FolderPath(Key69)
           ELSE Null

\* new RegExp(`^${baseJobNo}\\s*-\\s*`, 'i').test(name), for a baseJobNo of letters and digits
baseJobFolderPattern(baseJobNo, name) ==
  LET n == ToUpperCase(name)
      b == ToUpperCase(baseJobNo)
  IN  /\ IsPrefix(b, n)
      /\ LET rest == Drop(n, Len(b))
             tail == Drop(rest, WsLen(rest))
         IN  tail # <<>> /\ Head(tail) = "-"

\* checkExistingJobFolders: the names among the listed entries that the pattern matches;
\* `entries` is [] when the listing failed
\* a variant that never finds a folder of the base identifier
checkExistingJobFolders_None(entries, baseJobNo) == {}

checkExistingJobFolders(entries, baseJobNo) ==
  {e.name : e \in {f \in entries : baseJobFolderPattern(baseJobNo, f.name)}}

\* checkFolderExists: true only when get_metadata succeeds
\* a variant that takes a failed lookup for an existing folder
checkFolderExists_FailClosed(answer) == answer \in {"found", "error"}

checkFolderExists(answer) == answer = "found"

\* a variant without the two checks
PreconditionsHold_Unchecked == TRUE

\* a variant with the teamMemberId check alone
PreconditionsHold_MemberOnly == teamMemberId \notin {"undefined", Null}

\* the two checks at the head of the cycle (folderIds, teamMemberId)
PreconditionsHold ==
  /\ folderIds.defined /\ DOMAIN folderIds.paths # {}
  /\ teamMemberId \notin {"undefined", Null}

\* a variant of the test without the 60000 ms
NeedsRefresh_NoMargin(tokens, now) ==
  \/ tokens.access_token = 0
  \/ tokens.obtained_at + tokens.expires_in * 1000 < now

\* the test `!tokens.access_token || tokenExpiry < now` of getValidAccessToken
NeedsRefresh(tokens, now) ==
  \/ tokens.access_token = 0
  \/ tokens.obtained_at + tokens.expires_in * 1000 - SafetyMargin < now

(***************************************************************************)
(* The storage service's answers                                           *)
(***************************************************************************)
\* error_summary of an error answer, as its path of tags
ErrorSummary(answer) ==
  CASE answer = "to/conflict"           -> <<"to", "conflict", "folder">>
    [] answer = "from_lookup/not_found" -> <<"from_lookup", "not_found">>
    [] answer = "path/conflict/folder"  -> <<"path", "conflict", "folder">>
    [] OTHER                            -> <<>>

\* files/get_metadata
MetadataAnswers(there) == (IF there THEN {"found"} ELSE {"not_found"}) \cup {"error"}

\* files/copy_v2 with autorename false.  Its error is a RelocationError, which names
\* the side that failed: "to/conflict/folder/.." when the target exists,
\* "from_lookup/not_found/.." when the template is missing
CopyAnswers(there) ==
  (IF there THEN {"to/conflict"} ELSE {"ok"}) \cup {"from_lookup/not_found", "error"}

\* files/create_folder_v2 with autorename false.  Its error is a CreateFolderError:
\* "path/conflict/folder/.." when the target exists
CreateAnswers(there) ==
  (IF there THEN {"path/conflict/folder"} ELSE {"ok"}) \cup {"error"}

\* an answer after which the service holds one more folder
Creates(answer) == answer = "ok"

\* createFolderFromTemplate on the answer to the copy: the folder, or the fall-back.
\* "no_metadata" is a success answer without data.metadata, which the service does not give
createFolderFromTemplate(answer) ==
  IF answer = "ok" THEN "Materialized"
  ELSE IF answer = "no_metadata" THEN "createFolder"
  ELSE IF Includes(ErrorSummary(answer), <<"path", "conflict">>) THEN "Materialized"
  ELSE IF Includes(ErrorSummary(answer), <<"path", "not_found">>) THEN "createFolder"
  ELSE "createFolder"

\* a variant of createFolder without the conflict test
createFolder_ConflictFails(answer) ==
  IF answer = "ok" THEN "Materialized" ELSE "Failed"

\* createFolder on the answer to the create: the folder, or null
createFolder(answer) ==
  IF answer = "ok" THEN "Materialized"
  ELSE IF answer = "no_metadata" THEN "Failed"
  ELSE IF Includes(ErrorSummary(answer), <<"path", "conflict", "folder">>) THEN "Materialized"
  ELSE "Failed"

(***************************************************************************)
(* The polling cycle: schedule.scheduleJob('*/1 * * * *', async () => ...) *)
(***************************************************************************)
\* lastChecked = new Date() after the batch
checkpointAfterBatch(c) == clock

\* a variant in which a cycle that ends early re-opens the initial look-back
checkpointAfterError_LookBack(c) == clock - LookBack

\* the catch block and the early returns leave lastChecked alone
checkpointAfterError(c) == lastChecked

\* the cycle ends
Ended(c, outcome, checkpoint) ==
  [c EXCEPT !.pc = "done", !.outcome = outcome, !.lc1 = checkpoint, !.jobs = <<>>,
            !.processedJobs = {}, !.data = NoTokens, !.item = NoItem]

\* a variant of the loop without `if (processedJobs.has(jobNo)) continue`
RECURSIVE NextAwait_NoDedupe(_, _)
NextAwait_NoDedupe(jobs, processedJobs) ==
  IF jobs = <<>> THEN [kind |-> "end", jobs |-> jobs, processedJobs |-> processedJobs]
  ELSE LET job   == Head(jobs)
           jobNo == job.ID
       IN  IF jobNo.type # "string"
           THEN [kind |-> "throw", jobs |-> jobs, processedJobs |-> processedJobs]
           ELSE IF job.DateCreated # "valid"
           THEN [kind |-> "throw", jobs |-> jobs, processedJobs |-> processedJobs]
           ELSE IF selectDestinationFolder(jobNo) = Null
           THEN NextAwait_NoDedupe(Tail(jobs), processedJobs \cup {jobNo})
           ELSE IF job.Name.type # "string"
           THEN [kind |-> "throw", jobs |-> jobs, processedJobs |-> processedJobs]
           ELSE [kind |-> "await", jobs |-> jobs,
                 processedJobs |-> processedJobs \cup {jobNo}]

\* the `for` loop from the head of `jobs` up to the first awaited call:
\* "await" (checkFolderExists of the head of jobs), "throw" or "end"
RECURSIVE NextAwait(_, _)
NextAwait(jobs, processedJobs) ==
  IF jobs = <<>> THEN [kind |-> "end", jobs |-> jobs, processedJobs |-> processedJobs]
  ELSE LET job   == Head(jobs)
           jobNo == job.ID
       IN  IF jobNo.type # "string"
           THEN [kind |-> "throw", jobs |-> jobs, processedJobs |-> processedJobs]
           ELSE IF jobNo \in processedJobs
           THEN NextAwait(Tail(jobs), processedJobs)
           ELSE IF job.DateCreated # "valid"
           THEN [kind |-> "throw", jobs |-> jobs, processedJobs |-> processedJobs]
           ELSE IF selectDestinationFolder(jobNo) = Null
           THEN NextAwait(Tail(jobs), processedJobs \cup {jobNo})
           ELSE IF job.Name.type # "string"
           THEN [kind |-> "throw", jobs |-> jobs, processedJobs |-> processedJobs]
           ELSE [kind |-> "await", jobs |-> jobs,
                 processedJobs |-> processedJobs \cup {jobNo}]

\* the cycle goes on with the items `rest`
Proceed(c, rest, processedJobs) ==
  LET r == NextAwait(rest, processedJobs)
  IN  CASE r.kind = "await" ->
             [c EXCEPT !.pc = "exists", !.jobs = r.jobs, !.processedJobs = r.processedJobs,
                       !.calls.storage = @ + 1, !.item = NoItem]
        [] r.kind = "throw" -> Ended(c, "crashed", checkpointAfterError(c))
        [] r.kind = "end"   -> Ended(c, "completed", checkpointAfterBatch(c))

\* const since = lastChecked; const now = new Date(); axios.get(WFX_API_URL, {from, to})
IssueFetch(c) ==
  [c EXCEPT !.pc = "fetch", !.since = lastChecked, !.to = clock, !.calls.fetch = @ + 1]

\* the item at the head of the loop: jobNo, baseJobNo, destFolderPath, jobFolderName
jobNo(c) == Head(c.jobs).ID.text

\* a variant that screens with the whole identifier
baseJobNo_Unsplit(c) == jobNo(c)

baseJobNo(c) == SplitFirst(jobNo(c))

\* a variant that sends every item to the first category
destFolderPath_Fixed(c) == FolderPath(Key25)

destFolderPath(c) == selectDestinationFolder(Head(c.jobs).ID)

jobFolderName(c) == formatJobName(jobNo(c), Head(c.jobs).Name.text)

\* `${parentPath}/${folderName}`
Target(c) == [parent |-> destFolderPath(c), name |-> jobFolderName(c)]

\* the checkpoint after a step that takes a cycle to record c
Checkpoint(c) == IF c.pc = "done" THEN c.lc1 ELSE lastChecked

\* the cron fires: the precondition checks, then readTokens is awaited
StartCycle(m) ==
  /\ clock = m * CronPeriod
  /\ cyc[m].pc = "idle"
  /\ LET c == [cyc[m] EXCEPT !.lc0 = lastChecked]
     IN  cyc' = [cyc EXCEPT ![m] =
                   IF PreconditionsHold
                   THEN [c EXCEPT !.pc = "readTokens"]
                   ELSE Ended(c, "skipped", checkpointAfterError(c))]
  /\ lastChecked' = Checkpoint(cyc'[m])
  /\ overlap' = (overlap \/ (Active(m)' /\ \E n \in Minutes \ {m} : Active(n)))
  /\ UNCHANGED <<clock, teamMemberId, folderIds, startup, tokenFile, tokenEndpoint,
                 oauth, storage, lastLog, call>>

\* readTokens() is back: the cached token is used, or the refresh is sent
ReadTokensDone(m) ==
  /\ cyc[m].pc = "readTokens"
  /\ LET c == [cyc[m] EXCEPT !.tokens = tokenFile]
     IN  cyc' = [cyc EXCEPT ![m] =
                   IF NeedsRefresh(c.tokens, clock)
                   THEN [c EXCEPT !.pc = "refresh", !.calls.token = @ + 1]
                   ELSE IssueFetch(c)]
  /\ UNCHANGED <<clock, lastChecked, teamMemberId, folderIds, startup, tokenFile,
                 tokenEndpoint, oauth, storage, lastLog, overlap, call>>

\* a variant in which the endpoint grants whatever refresh_token parameter it is sent
EndpointAccepts_Any(refresh_token) == TRUE

\* the endpoint grants the refresh for a refresh token it issued and has not yet
\* replaced; `refresh_token: tokens.refresh_token` of an empty credential is undefined
\* (0 here), which the endpoint never issued
EndpointAccepts(refresh_token) == refresh_token \in tokenEndpoint.valid

\* the token endpoint answers the refresh: writeTokens(data), or the cycle is aborted
RefreshResp(m) ==
  /\ cyc[m].pc = "refresh"
  /\ \/ /\ EndpointAccepts(cyc[m].tokens.refresh_token)
        /\ tokenEndpoint.issued < MaxTokens
        /\ \E e \in ExpiresIn :
             cyc' = [cyc EXCEPT ![m] = [@ EXCEPT !.pc = "writeTokens",
                                                 !.data = writeTokens(NewCredential(e))]]
        /\ tokenEndpoint' =
             [issued |-> tokenEndpoint.issued + 1,
              valid  |-> (tokenEndpoint.valid \ {cyc[m].tokens.refresh_token})
                           \cup {tokenEndpoint.issued + 1}]
     \/ /\ cyc' = [cyc EXCEPT ![m] = Ended(@, "authfail", checkpointAfterError(@))]
        /\ UNCHANGED tokenEndpoint
  /\ lastChecked' = Checkpoint(cyc'[m])
  /\ UNCHANGED <<clock, teamMemberId, folderIds, startup, tokenFile, oauth, storage,
                 lastLog, overlap, call>>

\* fs.writeFile of writeTokens ends: the new access token is used for the fetch,
\* or the write failed and the cycle is aborted
WriteTokensDone(m) ==
  /\ cyc[m].pc = "writeTokens"
  /\ \/ /\ tokenFile' = cyc[m].data
        /\ cyc' = [cyc EXCEPT ![m] = IssueFetch(@)]
     \/ /\ UNCHANGED tokenFile
        /\ cyc' = [cyc EXCEPT ![m] = Ended(@, "authfail", checkpointAfterError(@))]
  /\ lastChecked' = Checkpoint(cyc'[m])
  /\ UNCHANGED <<clock, teamMemberId, folderIds, startup, tokenEndpoint, oauth, storage,
                 lastLog, overlap, call>>

\* the bodies of a 2xx answer: an XML document or a JSON envelope with the items
\* `jobs`, or a text that is neither (a JSON text cut short, say) whatever items it
\* was meant to hold
Responses(batches) ==
  {[format |-> f, jobs |-> b] : f \in {"parsed", "unparseable"}, b \in batches}

\* a variant in which JSON.parse is not inside a try
parseJobs_Fatal(response) ==
  IF response.format = "unparseable"
  THEN [thrown |-> TRUE, jobs |-> <<>>]
  ELSE [thrown |-> FALSE, jobs |-> response.jobs]

\* `let jobs = []` and the two parsing branches: the items of the body, or none when
\* JSON.parse throws (the catch logs "Failed to parse response as JSON")
parseJobs(response) ==
  IF response.format = "unparseable"
  THEN [thrown |-> FALSE, jobs |-> <<>>]
  ELSE [thrown |-> FALSE, jobs |-> response.jobs]

\* the tracking system answers, later than the request was sent: the fetch failed,
\* or the items are processed up to the first storage call
FetchAnswer(m, batches) ==
  /\ cyc[m].pc = "fetch"
  /\ clock > cyc[m].to
  /\ \/ cyc' = [cyc EXCEPT ![m] =
                  Ended([@ EXCEPT !.response = "failed"], "fetchfail",
                        checkpointAfterError(@))]
     \/ \E response \in Responses(batches) :
          LET parsed == parseJobs(response)
              c      == [cyc[m] EXCEPT !.response = response.format,
                                       !.fetched = parsed.jobs]
          IN  cyc' = [cyc EXCEPT ![m] =
                        IF parsed.thrown
                        THEN Ended(c, "fetchfail", checkpointAfterError(c))
                        ELSE Proceed(c, parsed.jobs, {})]
  /\ lastChecked' = Checkpoint(cyc'[m])
  /\ UNCHANGED <<clock, teamMemberId, folderIds, startup, tokenFile, tokenEndpoint,
                 oauth, storage, lastLog, overlap, call>>

FetchResp(m) == FetchAnswer(m, Batches)

\* the same with the longer answers
FetchLongResp(m) == FetchAnswer(m, LongBatches)

\* get_metadata answers: the item is skipped, or the next screen or the copy is requested
ExistsResp(m) ==
  /\ cyc[m].pc = "exists"
  /\ \E answer \in MetadataAnswers(Target(cyc[m]) \in storage) :
       LET c == cyc[m]
       IN  IF checkFolderExists(answer)
           THEN /\ lastLog' = [result |-> "exists", answer |-> answer]
                /\ cyc' = [cyc EXCEPT ![m] = Proceed(c, Tail(c.jobs), c.processedJobs)]
           ELSE /\ lastLog' = lastLog
                /\ cyc' = [cyc EXCEPT ![m] =
                     IF Includes(jobNo(c), <<"_">>)
                     THEN [c EXCEPT !.pc = "list", !.item.exists = answer,
                                    !.calls.storage = @ + 1]
                     ELSE [c EXCEPT !.pc = "copy", !.item.exists = answer,
                                    !.calls.storage = @ + 1,
                                    !.tried = @ \cup {jobNo(c)}]]
  /\ lastChecked' = Checkpoint(cyc'[m])
  /\ UNCHANGED <<clock, teamMemberId, folderIds, startup, tokenFile, tokenEndpoint,
                 oauth, storage, overlap, call>>

\* list_folder answers with an error, with all entries, or with a first page of them
ListResp(m) ==
  /\ cyc[m].pc = "list"
  /\ LET c       == cyc[m]
         entries == {f \in storage : f.parent = destFolderPath(c)}
     IN  \E failed \in BOOLEAN, page \in SUBSET entries :
           /\ failed => page = {}
           /\ LET existingFolders == checkExistingJobFolders(page, baseJobNo(c))
                  answer == IF failed THEN "error"
                            ELSE IF page = entries THEN "full" ELSE "partial"
                  it == [c.item EXCEPT !.list = answer]
              IN  IF existingFolders # {}
                  THEN /\ lastLog' = [result |-> "duplicate", answer |-> answer]
                       /\ cyc' = [cyc EXCEPT ![m] = Proceed(c, Tail(c.jobs), c.processedJobs)]
                  ELSE /\ lastLog' = lastLog
                       /\ cyc' = [cyc EXCEPT ![m] =
                            [c EXCEPT !.pc = "copy", !.item = it, !.calls.storage = @ + 1,
                                      !.tried = @ \cup {jobNo(c)}]]
  /\ lastChecked' = Checkpoint(cyc'[m])
  /\ UNCHANGED <<clock, teamMemberId, folderIds, startup, tokenFile, tokenEndpoint,
                 oauth, storage, overlap, call>>

\* copy_v2 answers: the folder is there, or createFolder is called
CopyResp(m) ==
  /\ cyc[m].pc = "copy"
  /\ \E answer \in CopyAnswers(Target(cyc[m]) \in storage) :
       LET c == cyc[m]
       IN  /\ storage' = IF Creates(answer) THEN storage \cup {Target(c)} ELSE storage
           /\ IF createFolderFromTemplate(answer) = "Materialized"
              THEN /\ lastLog' = [result |-> "Materialized", answer |-> answer]
                   /\ cyc' = [cyc EXCEPT ![m] = Proceed(c, Tail(c.jobs), c.processedJobs)]
              ELSE /\ lastLog' = lastLog
                   /\ cyc' = [cyc EXCEPT ![m] =
                        [c EXCEPT !.pc = "create", !.calls.storage = @ + 1,
                                  !.item = [@ EXCEPT !.copy = answer, !.creates = @ + 1]]]
  /\ lastChecked' = Checkpoint(cyc'[m])
  /\ UNCHANGED <<clock, teamMemberId, folderIds, startup, tokenFile, tokenEndpoint,
                 oauth, overlap, call>>

\* create_folder_v2 answers: the folder is there, or the item is left unprovisioned
CreateResp(m) ==
  /\ cyc[m].pc = "create"
  /\ \E answer \in CreateAnswers(Target(cyc[m]) \in storage) :
       LET c == cyc[m]
       IN  /\ storage' = IF Creates(answer) THEN storage \cup {Target(c)} ELSE storage
           /\ lastLog' = [result |-> createFolder(answer), answer |-> answer]
           /\ cyc' = [cyc EXCEPT ![m] =
                Proceed([c EXCEPT !.failed = IF createFolder(answer) = "Failed"
                                             THEN @ \cup {jobNo(c)} ELSE @],
                        Tail(c.jobs), c.processedJobs)]
  /\ lastChecked' = Checkpoint(cyc'[m])
  /\ UNCHANGED <<clock, teamMemberId, folderIds, startup, tokenFile, tokenEndpoint,
                 oauth, overlap, call>>

Next ==
  \/ Tick
  \/ TeamMembersResp
  \/ ListRootResp
  \/ OAuthCallback
  \/ OAuthExchangeResp
  \/ OAuthWriteDone
  \/ \E m \in Minutes : StartCycle(m)
  \/ \E m \in Minutes : ReadTokensDone(m)
  \/ \E m \in Minutes : RefreshResp(m)
  \/ \E m \in Minutes : WriteTokensDone(m)
  \/ \E m \in Minutes : FetchResp(m)
  \/ \E m \in Minutes : ExistsResp(m)
  \/ \E m \in Minutes : ListResp(m)
  \/ \E m \in Minutes : CopyResp(m)
  \/ \E m \in Minutes : CreateResp(m)

Spec == Init /\ [][Next]_vars

(***************************************************************************)
(* The polling cycles alone, with longer answers of the tracking system:   *)
(* the runs from the state in which the startup has resolved the member    *)
(* and the three destinations and the credential file holds a token that   *)
(* stays valid, so that no cycle needs a refresh.                          *)
(***************************************************************************)
BatchInit ==
  /\ clock = 0
  /\ lastChecked = 0 - LookBack
  /\ teamMemberId = "dbmid:1"
  /\ folderIds = resolveFolderIds(Keys)
  /\ startup = "done"
  /\ tokenFile = [access_token |-> 1, refresh_token |-> 1, expires_in |-> 1800,
                  obtained_at |-> 0]
  /\ tokenEndpoint = [issued |-> 1, valid |-> {1}]
  /\ oauth = [pc |-> "idle", data |-> NoTokens]
  /\ storage = {}
  /\ cyc = [m \in Minutes |-> IdleCycle]
  /\ lastLog = NoLog
  /\ overlap = FALSE
  /\ call = NoCall

BatchNext ==
  \/ Tick
  \/ \E m \in Minutes : StartCycle(m)
  \/ \E m \in Minutes : ReadTokensDone(m)
  \/ \E m \in Minutes : FetchLongResp(m)
  \/ \E m \in Minutes : ExistsResp(m)
  \/ \E m \in Minutes : ListResp(m)
  \/ \E m \in Minutes : CopyResp(m)
  \/ \E m \in Minutes : CreateResp(m)

BatchSpec == BatchInit /\ [][BatchNext]_vars

(***************************************************************************)
(* The cycles on a tracking system whose answer is what the query asks for:*)
(* the jobs it has recorded with a date between `from` and `to`.  Every    *)
(* fetch succeeds.                                                         *)
(***************************************************************************)
\* the jobs of the tracking system and the instant each was recorded: one in the 24 h
\* before the start, one at the second cron instant
Recorded ==
  << [job |-> JobBase,     at |-> 0 - 1],
     [job |-> JobSuffixed, at |-> CronPeriod] >>

\* the answer to params {from: since, to: to}
RECURSIVE JobsBetween(_, _, _)
JobsBetween(recorded, from, to) ==
  IF recorded = <<>> THEN <<>>
  ELSE LET r == Head(recorded)
       IN  (IF from <= r.at /\ r.at <= to THEN <<r.job>> ELSE <<>>)
             \o JobsBetween(Tail(recorded), from, to)

\* the tracking system answers the query of cycle m
FetchWindowResp(m) ==
  /\ cyc[m].pc = "fetch"
  /\ clock > cyc[m].to
  /\ cyc' = [cyc EXCEPT ![m] =
               Proceed([@ EXCEPT !.response = "parsed",
                                 !.fetched = JobsBetween(Recorded, cyc[m].since, cyc[m].to)],
                       JobsBetween(Recorded, cyc[m].since, cyc[m].to), {})]
  /\ lastChecked' = Checkpoint(cyc'[m])
  /\ UNCHANGED <<clock, teamMemberId, folderIds, startup, tokenFile, tokenEndpoint,
                 oauth, storage, lastLog, overlap, call>>

WindowNext ==
  \/ Tick
  \/ \E m \in Minutes : StartCycle(m)
  \/ \E m \in Minutes : ReadTokensDone(m)
  \/ \E m \in Minutes : FetchWindowResp(m)
  \/ \E m \in Minutes : ExistsResp(m)
  \/ \E m \in Minutes : ListResp(m)
  \/ \E m \in Minutes : CopyResp(m)
  \/ \E m \in Minutes : CreateResp(m)

WindowSpec == BatchInit /\ [][WindowNext]_vars

(***************************************************************************)
(* The cycles on a tracking system that holds the job 95 and reports it    *)
(* again after its title was changed.                                      *)
(***************************************************************************)
\* the job 95 after its title was changed in the tracking system
JobRetitled == Job(<<"9","5">>, <<"B","o">>)

\* the `jobs` arrays of the answers: nothing new, the job, or the job with its new title
RetitledBatches == {<<>>, <<JobBase>>, <<JobRetitled>>}

FetchRetitledResp(m) == FetchAnswer(m, RetitledBatches)

RetitleNext ==
  \/ Tick
  \/ \E m \in Minutes : StartCycle(m)
  \/ \E m \in Minutes : ReadTokensDone(m)
  \/ \E m \in Minutes : FetchRetitledResp(m)
  \/ \E m \in Minutes : ExistsResp(m)
  \/ \E m \in Minutes : CopyResp(m)
  \/ \E m \in Minutes : CreateResp(m)

RetitleSpec == BatchInit /\ [][RetitleNext]_vars

(***************************************************************************)
(* selectDestinationFolder and formatJobName on their own: a call with an  *)
(* argument drawn from the sets below, on any mapping of destinations.     *)
(***************************************************************************)
\* the pieces the titles are put together from: the five entities, parts of entities,
\* parentheses, a parenthesised group, letters, a space and an underscore
TitlePieces ==
  { <<"&","a","m","p",";">>, <<"&","l","t",";">>, <<"&","g","t",";">>,
    <<"&","q","u","o","t",";">>, <<"&","#","3","9",";">>,
    <<"a","m","p",";">>, <<"&","#">>, <<"3","9",";">>,
    <<"(">>, <<")">>, <<"(","x",")">>, <<"x">>, <<"a">>, <<" ">>, <<"_">> }

\* the titles of at most n pieces
RECURSIVE TitlesOf(_)
TitlesOf(n) ==
  IF n = 0 THEN {<<>>}
  ELSE LET shorter == TitlesOf(n - 1)
       IN  shorter \cup {t \o piece : t \in shorter, piece \in TitlePieces}

Titles == TitlesOf(MaxTitle)

\* the identifiers selectDestinationFolder is called with: every leading character class,
\* the empty text and a value that is not a text
LeadingChars == {"0", "1", "2", "3", "4", "5", "6", "7", "8", "9", "A", "_"}

JobNumbers ==
  {JsUndefined, JsString(<<>>)}
    \cup {JsString(<<ch>>) : ch \in LeadingChars}
    \cup {JsString(<<ch, "5">>) : ch \in LeadingChars}

\* a global.folderIds that holds the paths of the categories `resolved`
FolderIdsOf(resolved) ==
  [defined |-> TRUE, paths |-> [k \in resolved |-> PathLower(k)], found |-> resolved]

FnInit ==
  /\ clock = 0
  /\ lastChecked = 0 - LookBack
  /\ teamMemberId = "dbmid:1"
  /\ startup = "done"
  /\ tokenFile = NoTokens
  /\ tokenEndpoint = [issued |-> 0, valid |-> {}]
  /\ oauth = [pc |-> "idle", data |-> NoTokens]
  /\ storage = {}
  /\ cyc = [m \in Minutes |-> IdleCycle]
  /\ lastLog = NoLog
  /\ overlap = FALSE
  /\ \/ /\ \E resolved \in SUBSET Keys : folderIds = FolderIdsOf(resolved)
        /\ \E id \in JobNumbers :
             call = [fn |-> "selectDestinationFolder", arg |-> id, ret |-> <<>>,
                     done |-> FALSE]
     \/ /\ folderIds = FolderIdsOf(Keys)
        /\ \E title \in Titles :
             call = [fn |-> "formatJobName",
                     arg |-> [jobNo |-> <<"9","5">>, jobName |-> title],
                     ret |-> <<>>, done |-> FALSE]

\* the call returns
CallSelectDestinationFolder ==
  /\ call.fn = "selectDestinationFolder" /\ ~call.done
  /\ call' = [call EXCEPT !.ret = selectDestinationFolder(call.arg), !.done = TRUE]
  /\ UNCHANGED <<clock, lastChecked, teamMemberId, folderIds, startup, tokenFile,
                 tokenEndpoint, oauth, storage, cyc, lastLog, overlap>>

CallFormatJobName ==
  /\ call.fn = "formatJobName" /\ ~call.done
  /\ call' = [call EXCEPT !.ret = formatJobName(call.arg.jobNo, call.arg.jobName),
                          !.done = TRUE]
  /\ UNCHANGED <<clock, lastChecked, teamMemberId, folderIds, startup, tokenFile,
                 tokenEndpoint, oauth, storage, cyc, lastLog, overlap>>

FnNext == CallSelectDestinationFolder \/ CallFormatJobName

FnSpec == FnInit /\ [][FnNext]_vars

(***************************************************************************)
(* Properties                                                              *)
(***************************************************************************)
\* cycle n is the cycle scheduled next after cycle m
NextCycle(m, n) == n \in Minutes /\ n = m + 1

\* the step ends cycle m as a completed batch
Completes(m) == cyc[m].outcome # "completed" /\ cyc'[m].outcome = "completed"

\* the text of s before the first ch
RECURSIVE UpTo(_, _)
UpTo(s, ch) == IF s = <<>> \/ Head(s) = ch THEN <<>> ELSE <<Head(s)>> \o UpTo(Tail(s), ch)

\* the identifier a folder "<ID> - <NAME>" is named after, and the base of an identifier
FolderIdentifier(name) == UpTo(name, " ")

BaseOf(id) == UpTo(id, "_")

\* cycle m is working on an item whose identifier has a suffix
OnSuffixedItem(m) == cyc[m].jobs # <<>> /\ Includes(jobNo(cyc[m]), <<"_">>)

\* the destination of the item of c holds a folder of the item's base identifier
BaseThere(c) ==
  \E f \in storage : /\ f.parent = destFolderPath(c)
                     /\ FolderIdentifier(f.name) = BaseOf(jobNo(c))

\* the step drops the item of cycle m at the screening (the next item, if any, starts)
Dropped(m) ==
  cyc[m].pc \in {"exists", "list"} /\ cyc'[m] # cyc[m] /\ cyc'[m].pc \notin {"list", "copy"}

\* the step sends the item of cycle m from the screening to createFolderFromTemplate
ToProvisioning(m) == cyc[m].pc \in {"exists", "list"} /\ cyc'[m].pc = "copy"

\* the step is the answer to a copy or create request of cycle m
ProvisionStep(m) == cyc[m].pc \in {"copy", "create"} /\ cyc'[m] # cyc[m]

\* the step returns from createFolderFromTemplate in cycle m
ProvisionEnds(m) == ProvisionStep(m) /\ cyc'[m].pc \notin {"copy", "create"}

----------------------------------------------------------------------------
\* C1: a cycle whose fetch failed leaves lastChecked as it was before the cycle, and
\* the next cycle that fetches asks for the same `from` as the failed cycle did
C1_FetchFailureKeepsCheckpoint ==
  \A m \in Minutes :
    cyc[m].outcome = "fetchfail" =>
      /\ cyc[m].lc1 = cyc[m].lc0
      /\ \A n \in Minutes :
           NextCycle(m, n) /\ cyc[n].calls.fetch > 0 => cyc[n].since = cyc[m].since

\* C1 in the runs in which no two cycles were ever active together
C1_WithoutOverlap == overlap \/ C1_FetchFailureKeepsCheckpoint

\* C2: of two consecutive cycles that both complete, the later one asks for a `from`
\* equal to the `to` of the earlier one
C2_ContiguousWindows ==
  \A m, n \in Minutes :
    NextCycle(m, n) /\ cyc[m].outcome = "completed" /\ cyc[n].outcome = "completed"
      => cyc[n].since = cyc[m].to

\* C2 in the runs in which no two cycles were ever active together (fails as well)
C2_WithoutOverlap == overlap \/ C2_ContiguousWindows

\* C3: lastChecked starts 24 hours before the start of the process, never moves
\* backwards, and a cycle that completes leaves it strictly greater than it was
\* before that cycle
C3_CheckpointMonotone ==
  /\ lastChecked = 0 - LookBack
  /\ [][/\ lastChecked' >= lastChecked
        /\ \A m \in Minutes : Completes(m) => lastChecked' > cyc[m].lc0]_vars

\* a cycle has completed and moved lastChecked, and another has ended in a fetch failure
C3_Witness ==
  \E m, n \in Minutes :
    /\ cyc[m].outcome = "completed" /\ cyc[m].lc1 > cyc[m].lc0
    /\ cyc[n].outcome = "fetchfail"

\* C4: at most one polling cycle is active at any time
C4_OneActiveCycle == Cardinality({m \in Minutes : Active(m)}) <= 1

\* C5 as stated: every call of createFolderFromTemplate returns Materialized and leaves
\* the folder at the target path
C5_AlwaysMaterialized ==
  [][\A m \in Minutes :
       ProvisionEnds(m) =>
         lastLog'.result = "Materialized" /\ Target(cyc[m]) \in storage']_vars

\* C5 amended: a call for a path that already holds the folder creates nothing, a call
\* creates at most the folder of its path, a call that returns Materialized leaves the
\* folder there, and a call returns Materialized unless its create-folder request is
\* answered by an error other than a conflict
C5_Idempotent ==
  [][\A m \in Minutes :
       /\ ProvisionStep(m) =>
            /\ storage' \subseteq storage \cup {Target(cyc[m])}
            /\ Target(cyc[m]) \in storage => storage' = storage
       /\ ProvisionEnds(m) =>
            /\ lastLog'.result = "Materialized" => Target(cyc[m]) \in storage'
            /\ lastLog'.result # "Materialized" =>
                 cyc[m].pc = "create" /\ lastLog'.answer = "error"]_vars

\* a call for a path that already held the folder has returned Materialized
C5_Witness ==
  lastLog.result = "Materialized" /\ lastLog.answer = "path/conflict/folder"

\* C6: a copy answered by success or by a conflict ends in Materialized without a
\* create-folder call; otherwise exactly one create-folder call is made, which gives
\* Materialized on success or conflict and Failed on any other error
C6_FallbackChain ==
  /\ \A m \in Minutes :
       cyc[m].pc = "create" =>
         /\ cyc[m].item.copy \in {"from_lookup/not_found", "error"}
         /\ cyc[m].item.creates = 1
  /\ lastLog.answer \in {"ok", "to/conflict", "path/conflict/folder"}
       => lastLog.result = "Materialized"
  /\ lastLog.result = "Failed" => lastLog.answer = "error"

\* C6 in the runs in which no two cycles were ever active together (fails as well)
C6_WithoutOverlap == overlap \/ C6_FallbackChain

C8_OneFolderPerBase ==
  \A f, g \in storage :
    /\ f.parent = g.parent
    /\ BaseOf(FolderIdentifier(f.name)) = BaseOf(FolderIdentifier(g.name))
    => f = g

\* C8 in the runs in which no two cycles were ever active together (fails as well)
C8_WithoutOverlap == overlap \/ C8_OneFolderPerBase

\* C9: a cycle that starts while folderIds is undefined or empty, or while teamMemberId
\* is undefined or null, ends at once: no request is sent, nothing is processed and
\* lastChecked, the storage and the credentials are as before
C9_PreconditionSkip ==
  [][\A m \in Minutes :
       /\ cyc[m].pc = "idle" /\ cyc'[m].pc # "idle"
       /\ \/ ~folderIds.defined
          \/ DOMAIN folderIds.paths = {}
          \/ teamMemberId \in {"undefined", Null}
       => /\ cyc'[m].pc = "done"
          /\ cyc'[m].calls = [token |-> 0, fetch |-> 0, storage |-> 0]
          /\ cyc'[m].jobs = <<>> /\ cyc'[m].processedJobs = {}
          /\ UNCHANGED <<lastChecked, storage, tokenFile, tokenEndpoint, lastLog>>]_vars

\* a cycle was skipped at the precondition checks
C9_Witness == \E m \in Minutes : cyc[m].outcome = "skipped" /\ cyc[m].lc1 = cyc[m].lc0

\* C10: a cycle whose token refresh failed sends no fetch and no storage request and
\* leaves lastChecked as it was before the cycle; the next cycle that reads the same
\* credentials attempts the refresh again
C10_RefreshFailureEndsCycle ==
  \A m \in Minutes :
    cyc[m].outcome = "authfail" =>
      /\ cyc[m].calls.fetch = 0 /\ cyc[m].calls.storage = 0
      /\ cyc[m].lc1 = cyc[m].lc0
      /\ \A n \in Minutes :
           /\ NextCycle(m, n)
           /\ cyc[n].pc \notin {"idle", "readTokens"} /\ cyc[n].outcome # "skipped"
           /\ cyc[n].tokens = cyc[m].tokens
           => cyc[n].calls.token >= 1

\* C10 in the runs in which no two cycles were ever active together
C10_WithoutOverlap == overlap \/ C10_RefreshFailureEndsCycle

----------------------------------------------------------------------------
\* expiresAt of a credential, in ms: obtained_at + expires_in (seconds)
ExpiresAt(tokens) == tokens.obtained_at + tokens.expires_in * 1000

\* the step in which getValidAccessToken of cycle m has read the file and decides
TokenCheck(m) == cyc[m].pc = "readTokens" /\ cyc'[m].pc # "readTokens"

\* the step returns the cached token: no token-endpoint call, no credential write
ReturnsCached(m) ==
  /\ cyc'[m].pc = "fetch"
  /\ cyc'[m].calls.token = cyc[m].calls.token
  /\ UNCHANGED <<tokenFile, tokenEndpoint>>

\* C11 as stated: the refresh is requested whenever the access token is absent or
\* now >= expiresAt - 60 s, the cached token is returned (without a token-endpoint
\* call or a credential write) only when now < expiresAt - 60 s, and a cached token
\* that is returned has more than 60 s of validity left
C11_RefreshCondition ==
  [][\A m \in Minutes :
       TokenCheck(m) =>
         LET absent == tokenFile.access_token = 0
             due    == clock >= ExpiresAt(tokenFile) - SafetyMargin
         IN  /\ absent \/ due => cyc'[m].pc = "refresh"
             /\ ~(absent \/ due) => ReturnsCached(m)
             /\ cyc'[m].pc = "fetch" => ExpiresAt(tokenFile) - clock > SafetyMargin]_vars

\* C11 amended: the refresh is requested whenever the access token is absent or
\* now > expiresAt - 60 s, the cached token is returned (without a token-endpoint call
\* or a credential write) exactly when a token is present and now <= expiresAt - 60 s,
\* and a cached token that is returned has at least 60 s of validity left
C11_RefreshAfterMargin ==
  [][\A m \in Minutes :
       TokenCheck(m) =>
         LET absent == tokenFile.access_token = 0
             due    == clock > ExpiresAt(tokenFile) - SafetyMargin
         IN  /\ absent \/ due => cyc'[m].pc = "refresh" /\ cyc'[m].calls.token = 1
             /\ ~(absent \/ due) => ReturnsCached(m)
             /\ cyc'[m].pc = "fetch" => ExpiresAt(tokenFile) - clock >= SafetyMargin]_vars

\* a cycle was given the cached token at the instant now = expiresAt - 60 s
C11_Witness ==
  \E m \in Minutes :
    /\ cyc[m].pc = "fetch" /\ cyc[m].calls.token = 0
    /\ cyc[m].to = ExpiresAt(cyc[m].tokens) - SafetyMargin

----------------------------------------------------------------------------
\* the step in which the token endpoint's answer to the refresh of cycle m arrives
RefreshAnswer(m) == cyc[m].pc = "refresh" /\ cyc'[m].pc # "refresh"

----------------------------------------------------------------------------
\* the step in which getValidAccessToken of cycle m returns a refreshed token:
\* the fetch is sent after a refresh exchange
ReturnsRefreshed(m) ==
  cyc[m].pc \in {"refresh", "writeTokens"} /\ cyc'[m].pc = "fetch"

\* C13: a refreshed token is returned only by the step that ends the write of the
\* credential file; after it the file holds the new credential (the access and refresh
\* token and the expires_in the endpoint answered, not the ones that were read) with
\* an obtained_at stamped during this cycle, and every successful exchange is followed
\* by the write before anything else happens in the cycle
C13_PersistBeforeReturn ==
  [][\A m \in Minutes :
       /\ ReturnsRefreshed(m) =>
            /\ cyc[m].pc = "writeTokens"
            /\ tokenFile' = cyc[m].data
            /\ tokenFile'.access_token \notin {0, cyc[m].tokens.access_token}
            /\ tokenFile'.refresh_token \notin {0, cyc[m].tokens.refresh_token}
            /\ tokenFile'.expires_in \in ExpiresIn
            /\ tokenFile'.obtained_at \in (m * CronPeriod)..clock
       /\ cyc[m].pc = "refresh" /\ cyc'[m].pc \notin {"refresh", "done"} =>
            /\ cyc'[m].pc = "writeTokens"
            /\ cyc'[m].data.access_token = tokenEndpoint'.issued
            /\ cyc'[m].data.obtained_at = clock]_vars

\* a cycle after the first sent its fetch with a token refreshed and written in the cycle
C13_Witness ==
  \E m \in Minutes :
    /\ m > 0
    /\ cyc[m].pc = "fetch" /\ cyc[m].calls.token = 1
    /\ tokenFile = cyc[m].data
    /\ tokenFile.obtained_at >= m * CronPeriod

----------------------------------------------------------------------------
\* the step of cycle m in which an item is left unprovisioned: the copy and the
\* create of the empty folder have both failed
ProvisionFailure(m) == cyc'[m].failed # cyc[m].failed

\* an item the loop cannot read: no string identifier, no title or no valid date
Malformed(job) ==
  job.ID.type # "string" \/ job.Name.type # "string" \/ job.DateCreated # "valid"

\* C14: a cycle in which an item was left unprovisioned by a ProvisionFailure is not
\* aborted: it goes through every later item of its batch and ends as a completed
\* batch, with lastChecked advanced
C14_FailureKeepsBatch ==
  \A m \in Minutes :
    cyc[m].failed # {} /\ cyc[m].pc = "done" =>
      cyc[m].outcome = "completed" /\ cyc[m].lc1 > cyc[m].lc0

\* what holds of C14: after a ProvisionFailure the loop goes on with the next item;
\* the cycle is aborted, with lastChecked left alone, only on a malformed later item
C14_UnlessMalformed ==
  [][\A m \in Minutes :
       ProvisionFailure(m) =>
         \/ cyc'[m].pc = "exists" /\ Len(cyc'[m].jobs) < Len(cyc[m].jobs)
         \/ /\ cyc'[m].pc = "done" /\ cyc'[m].outcome = "completed"
            /\ lastChecked' = clock /\ lastChecked' > cyc[m].lc0
         \/ /\ cyc'[m].pc = "done" /\ cyc'[m].outcome = "crashed"
            /\ \E i \in 2..Len(cyc[m].jobs) : Malformed(cyc[m].jobs[i])
            /\ UNCHANGED lastChecked]_vars

----------------------------------------------------------------------------
\* cycle m completed its batch and left the item with identifier id unprovisioned
LeftUnprovisioned(m, id) ==
  cyc[m].pc = "done" /\ cyc[m].outcome = "completed" /\ id \in cyc[m].failed

\* cycle n started after cycle m had ended
StartedAfter(m, n) == n > m /\ cyc[n].pc # "idle" /\ cyc[n].lc0 >= cyc[m].lc1

\* C15: an item left unprovisioned by a ProvisionFailure is attempted again by a later
\* cycle; here, where every fetch succeeds and the last cycle of the run is the only
\* later one: once that cycle has completed its batch it has attempted the item
C15_FailedItemRetried ==
  \A m \in Minutes : \A id \in cyc[m].failed :
    \A n \in Minutes :
      /\ LeftUnprovisioned(m, id) /\ StartedAfter(m, n)
      /\ n = MaxMinutes /\ cyc[n].pc = "done" /\ cyc[n].outcome = "completed"
      => id \in cyc[n].tried

\* why no later cycle does, however many follow: the query of a cycle that starts after
\* a completed one asks for jobs after the `to` of the completed one, which is where
\* the jobs of that batch, the unprovisioned one included, are
C15_WindowHasPassed ==
  \A m, n \in Minutes :
    /\ cyc[m].pc = "done" /\ cyc[m].outcome = "completed"
    /\ StartedAfter(m, n) /\ cyc[n].calls.fetch > 0
    => cyc[n].since > cyc[m].to

\* the same when no two cycles were ever active together
C15_WithoutOverlap == ~overlap => C15_FailedItemRetried

----------------------------------------------------------------------------
\* the cron callback of minute m runs its head: the precondition checks
CycleStarts(m) == cyc[m].pc = "idle" /\ cyc'[m].pc # "idle"

\* C16: when the startup resolution has ended with some of the three destination
\* categories found (and the team member resolved), a cycle is not skipped: it goes
\* on to the credential and the fetch with the mapping of the categories found
C16_PartialMappingProceeds ==
  [][\A m \in Minutes :
       /\ CycleStarts(m)
       /\ startup = "done" /\ folderIds.found # {}
       /\ teamMemberId \notin {"undefined", Null}
       => /\ cyc'[m].pc = "readTokens"
          /\ DOMAIN folderIds.paths = folderIds.found]_vars

\* what the code does instead: the mapping is either absent or holds all three
\* categories, and a cycle goes on only with all three
C16_AllOrNothing ==
  /\ folderIds.defined <=> folderIds.found = Keys
  /\ DOMAIN folderIds.paths = IF folderIds.defined THEN Keys ELSE {}
  /\ \A m \in Minutes : cyc[m].pc \notin {"idle", "done"} => folderIds.found = Keys

----------------------------------------------------------------------------
\* the category the routing table gives an identifier: by its first character, or none
CategoryOf(id) ==
  IF id.type # "string" \/ id.text = <<>> THEN "none"
  ELSE CASE Head(id.text) \in {"2", "3", "4", "5"} -> Key25
         [] Head(id.text) \in {"7", "8"}           -> Key78
         [] Head(id.text) \in {"6", "9"}           -> Key69
         [] OTHER                                  -> "none"

\* C17: selectDestinationFolder returns, for every identifier and every mapping, the
\* resolved path of the category of the identifier's first character (2-5: A, 7,8: B,
\* 6,9: C); it returns absent for every other input (another leading character, the
\* empty string, a value that is not a string) and when the category has no resolved
\* path; what it returns is the path of at most one category
C17_RoutingTable ==
  call.fn = "selectDestinationFolder" /\ call.done =>
    LET category == CategoryOf(call.arg)
    IN  /\ category = "none" => call.ret = Null
        /\ category # "none" /\ category \notin folderIds.found => call.ret = Null
        /\ category # "none" /\ category \in folderIds.found =>
             call.ret = PathLower(category)
        /\ Cardinality({k \in Keys : call.ret = PathLower(k)}) <= 1

\* a call with an identifier that starts with 6 returned category C's path, and the
\* mapping resolved category B too
C17_Witness ==
  /\ call.fn = "selectDestinationFolder" /\ call.done
  /\ call.arg.type = "string" /\ call.arg.text # <<>> /\ Head(call.arg.text) = "6"
  /\ Key78 \in folderIds.found
  /\ call.ret = PathLower(Key69)

----------------------------------------------------------------------------
\* the five supported entities
Entities ==
  { <<"&","a","m","p",";">>, <<"&","l","t",";">>, <<"&","g","t",";">>,
    <<"&","q","u","o","t",";">>, <<"&","#","3","9",";">> }

\* the title part of a returned folder name "<jobNo> - <title>"
TitlePart == Drop(call.ret, Len(call.arg.jobNo) + 3)

\* C18: for every title built from the five entities and other characters, the title
\* part of what formatJobName returns contains none of the five entity strings
C18_NoEntityLeft ==
  call.fn = "formatJobName" /\ call.done =>
    \A entity \in Entities : ~Includes(TitlePart, entity)

\* the claim's nested entities: a title without parentheses comes out without an
\* entity, also when the entity names are read in the capitals that formatJobName
\* turns letters into
C18_NestedEntitiesDecoded ==
  call.fn = "formatJobName" /\ call.done =>
    LET title == call.arg.jobName
    IN  ~Includes(title, <<"(">>) /\ ~Includes(title, <<")">>)
        => \A entity \in Entities :
             ~Includes(TitlePart, entity) /\ ~Includes(TitlePart, ToUpperCase(entity))

\* what the replacements do achieve: a title whose characters outside the entities
\* are letters, spaces and underscores, and in which no "&amp;" is followed by the
\* text "amp;", comes out without an entity in either case
C18_PlainTitlesDecoded ==
  call.fn = "formatJobName" /\ call.done =>
    LET title == call.arg.jobName
    IN  /\ ~Includes(title, <<"(">>) /\ ~Includes(title, <<")">>)
        /\ ~Includes(title, <<"&","a","m","p",";","a","m","p",";">>)
        => \A entity \in Entities :
             ~Includes(TitlePart, entity) /\ ~Includes(TitlePart, ToUpperCase(entity))

----------------------------------------------------------------------------
\* the parentheses of s are parenthetical groups: each ")" closes an open "(" and,
\* with `depth` groups open at the start, none is open at the end
RECURSIVE Grouped(_, _)
Grouped(s, depth) ==
  IF s = <<>> THEN depth = 0
  ELSE CASE Head(s) = "(" -> Grouped(Tail(s), depth + 1)
         [] Head(s) = ")" -> depth > 0 /\ Grouped(Tail(s), depth - 1)
         [] OTHER         -> Grouped(Tail(s), depth)

\* ch occurs in s outside every group
RECURSIVE Outside(_, _, _)
Outside(s, ch, depth) ==
  IF s = <<>> THEN FALSE
  ELSE CASE Head(s) = "(" -> Outside(Tail(s), ch, depth + 1)
         [] Head(s) = ")" -> Outside(Tail(s), ch, depth - 1)
         [] OTHER         -> (depth = 0 /\ Head(s) = ch) \/ Outside(Tail(s), ch, depth)

\* the deepest nesting of the groups of s
RECURSIVE Nesting(_, _)
Nesting(s, depth) ==
  IF s = <<>> THEN depth
  ELSE LET rest == Nesting(Tail(s), CASE Head(s) = "(" -> depth + 1
                                      [] Head(s) = ")" -> depth - 1
                                      [] OTHER         -> depth)
       IN  IF rest > depth THEN rest ELSE depth

\* a title with parenthetical groups in which the letter x is written inside groups only
HasGroups(title) ==
  Includes(title, <<"(">>) /\ Grouped(title, 0) /\ ~Outside(title, "x", 0)

\* C19: for every title with parenthetical groups (one, several or nested), the title
\* part of what formatJobName returns has no parenthesis and no text from inside a group
C19_NoParentheticalText ==
  call.fn = "formatJobName" /\ call.done /\ HasGroups(call.arg.jobName) =>
    /\ ~Includes(TitlePart, <<"(">>) /\ ~Includes(TitlePart, <<")">>)
    /\ ~Includes(TitlePart, <<"X">>)

\* what the replacement achieves: the same for one or several groups that are not nested
C19_FlatGroupsStripped ==
  /\ call.fn = "formatJobName" /\ call.done
  /\ HasGroups(call.arg.jobName) /\ Nesting(call.arg.jobName, 0) = 1
  => /\ ~Includes(TitlePart, <<"(">>) /\ ~Includes(TitlePart, <<")">>)
     /\ ~Includes(TitlePart, <<"X">>)

----------------------------------------------------------------------------
\* the step in which the answer to the metadata lookup of cycle m's item arrives
LookupAnswer(m) == cyc[m].pc = "exists" /\ cyc'[m] # cyc[m]

\* the step in which the answer to the listing for cycle m's item arrives, after a
\* metadata lookup that failed with an error other than 'not found'
ListingAfterLookupError(m) ==
  cyc[m].pc = "list" /\ cyc'[m] # cyc[m] /\ cyc[m].item.exists = "error"

\* C20 as stated: checkFolderExists gives true only for a lookup that succeeded, and an
\* item whose lookup failed, with 'not found' or any other error, is not skipped: it
\* goes to the next screen and from there to createFolderFromTemplate
C20_FailOpenToProvisioning ==
  [][\A m \in Minutes :
       /\ LookupAnswer(m) =>
            \/ Dropped(m) /\ lastLog' = [result |-> "exists", answer |-> "found"]
            \/ /\ cyc'[m].item.exists \in {"not_found", "error"}
               /\ cyc'[m].pc = IF OnSuffixedItem(m) THEN "list" ELSE "copy"
       /\ ListingAfterLookupError(m) => ToProvisioning(m)]_vars

\* C20 amended: checkFolderExists gives true only for a lookup that succeeded (the folder
\* is there), and an item whose lookup failed, with 'not found' or any other error, is
\* not skipped by this check: it goes to the base-identifier screen if its identifier has
\* a suffix and otherwise to createFolderFromTemplate; after a lookup error the
\* base-identifier screen sends it to createFolderFromTemplate unless it finds a folder
\* of the base identifier, in which case the item is skipped as a duplicate
C20_FailOpen ==
  [][\A m \in Minutes :
       /\ LookupAnswer(m) =>
            \/ /\ Dropped(m) /\ lastLog' = [result |-> "exists", answer |-> "found"]
               /\ Target(cyc[m]) \in storage
            \/ /\ cyc'[m].item.exists \in {"not_found", "error"}
               /\ cyc'[m].pc = IF OnSuffixedItem(m) THEN "list" ELSE "copy"
               /\ cyc'[m].jobs = cyc[m].jobs
       /\ ListingAfterLookupError(m) =>
            \/ ToProvisioning(m) /\ cyc'[m].jobs = cyc[m].jobs
            \/ /\ Dropped(m) /\ lastLog'.result = "duplicate"
               /\ BaseThere(cyc[m])]_vars

\* an item whose metadata lookup failed with an error is at createFolderFromTemplate,
\* although its folder is there
C20_Witness ==
  \E m \in Minutes :
    /\ cyc[m].pc = "copy" /\ cyc[m].item.exists = "error"
    /\ Target(cyc[m]) \in storage

\* the consequence as stated, for runs in which no two cycles were ever active together
C20_WithoutOverlap ==
  [][\A m \in Minutes :
       ~overlap /\ ListingAfterLookupError(m) => ToProvisioning(m)]_vars

----------------------------------------------------------------------------
\* cycle m has ended after an answer that could be parsed in neither format
EndedOnUnparseable(m) == cyc[m].pc = "done" /\ cyc[m].response = "unparseable"

\* C21: a cycle whose answer cannot be parsed is aborted as a fetch failure and leaves
\* lastChecked as it was before the cycle
C21_UnparseableAborts ==
  \A m \in Minutes :
    EndedOnUnparseable(m) =>
      cyc[m].outcome = "fetchfail" /\ cyc[m].lc1 = cyc[m].lc0

\* the step in which the answer to the fetch of cycle m arrives and cannot be parsed
UnparseableAnswer(m) ==
  cyc[m].pc = "fetch" /\ cyc'[m].pc # "fetch" /\ cyc'[m].response = "unparseable"

\* C22: an answer that can be parsed in neither format gives zero items and is not
\* fatal: in the step that receives it the cycle reaches its normal end (the batch is
\* completed and the checkpoint taken) with no item processed, no storage call made
\* and no folder created
C22_UnparseableGivesNoItems ==
  [][\A m \in Minutes :
       UnparseableAnswer(m) =>
         /\ cyc'[m].pc = "done" /\ cyc'[m].outcome = "completed"
         /\ cyc'[m].calls.storage = 0 /\ cyc'[m].tried = {}
         /\ cyc'[m].lc1 = clock /\ lastChecked' = clock
         /\ UNCHANGED <<storage, lastLog>>]_vars

\* a cycle received an unparseable answer and completed
C22_Witness ==
  \E m \in Minutes :
    EndedOnUnparseable(m) /\ cyc[m].outcome = "completed" /\ cyc[m].calls.fetch = 1

----------------------------------------------------------------------------
\* cycle record c is at an awaited storage call for an item of its batch
OnItem(c) == c.pc \in {"exists", "list", "copy", "create"}

\* how far the loop of c has come in the fetched batch: 0 before the answer, the index
\* of the item it works on, one past the last index when it has ended
PositionOf(c) ==
  IF OnItem(c) THEN Len(c.fetched) - Len(c.jobs) + 1
  ELSE IF c.pc = "done" THEN Len(c.fetched) + 1
  ELSE 0

\* the i-th item of the batch is the first with its identifier
FirstOccurrence(batch, i) == \A j \in 1..(i - 1) : batch[j].ID # batch[i].ID

\* the step moves the loop of cycle m on in its batch, without aborting the cycle
LoopAdvances(m) ==
  /\ cyc[m].pc = "fetch" \/ OnItem(cyc[m])
  /\ PositionOf(cyc'[m]) # PositionOf(cyc[m])
  /\ cyc'[m].outcome \notin {"fetchfail", "crashed"}

\* C23: within a batch only the first occurrence of an identifier is routed, screened
\* and possibly provisioned: every storage call of a cycle is made for an item that is
\* the first of its batch with its identifier, and the items the loop passes without a
\* storage call are repeats of an earlier identifier or have no destination
C23_FirstOccurrenceWins ==
  [][\A m \in Minutes :
       /\ cyc'[m].calls.storage > cyc[m].calls.storage =>
            /\ OnItem(cyc'[m])
            /\ cyc'[m].jobs # <<>>
            /\ cyc'[m].jobs = SubSeq(cyc'[m].fetched, PositionOf(cyc'[m]),
                                     Len(cyc'[m].fetched))
            /\ FirstOccurrence(cyc'[m].fetched, PositionOf(cyc'[m]))
       /\ LoopAdvances(m) =>
            \A k \in (PositionOf(cyc[m]) + 1)..(PositionOf(cyc'[m]) - 1) :
              \/ ~FirstOccurrence(cyc'[m].fetched, k)
              \/ CategoryOf(cyc'[m].fetched[k].ID) = "none"]_vars

\* a cycle completed a batch of two items with the same routable identifier with at
\* least one and at most three storage calls
C23_Witness ==
  \E m \in Minutes :
    /\ cyc[m].pc = "done" /\ cyc[m].outcome = "completed"
    /\ Len(cyc[m].fetched) = 2
    /\ cyc[m].fetched[1].ID = cyc[m].fetched[2].ID
    /\ CategoryOf(cyc[m].fetched[1].ID) # "none"
    /\ cyc[m].calls.storage \in 1..3

----------------------------------------------------------------------------
\* the destination path of the category of the item cycle record c works on
CategoryPath(c) == PathLower(CategoryOf(Head(c.jobs).ID))

\* C24: every metadata, list, copy or create call of a cycle is made for an item with
\* a resolved category and targets that category's destination path; an item without
\* a category causes no storage call, and every folder that is created is created in
\* the destination path of the category of the item it is named after
C24_RoutingSafety ==
  [][\A m \in Minutes :
       /\ OnItem(cyc'[m]) =>
            /\ CategoryOf(Head(cyc'[m].jobs).ID) \in folderIds.found
            /\ destFolderPath(cyc'[m]) = CategoryPath(cyc'[m])
            /\ Target(cyc'[m]).parent = CategoryPath(cyc'[m])
       /\ cyc'[m].calls.storage > cyc[m].calls.storage =>
            CategoryOf(cyc'[m].fetched[PositionOf(cyc'[m])].ID) # "none"
       /\ \A f \in storage' \ storage :
            /\ f.parent = PathLower(CategoryOf(JsString(FolderIdentifier(f.name))))
            /\ \E n \in Minutes :
                 /\ cyc[n].pc \in {"copy", "create"}
                 /\ f = [parent |-> CategoryPath(cyc[n]), name |-> jobFolderName(cyc[n])]
    ]_vars

\* a cycle completed a batch of an unrouted item and a routed one with the storage
\* calls of one item, and the only folder there is is in the routed item's category
C24_Witness ==
  \E m \in Minutes :
    /\ cyc[m].pc = "done" /\ cyc[m].outcome = "completed"
    /\ Len(cyc[m].fetched) = 2
    /\ CategoryOf(cyc[m].fetched[1].ID) = "none"
    /\ CategoryOf(cyc[m].fetched[2].ID) = Key69
    /\ cyc[m].calls.storage \in 2..3
    /\ storage # {} /\ \A f \in storage : f.parent = PathLower(Key69)

----------------------------------------------------------------------------
\* cycle m works on a suffixed item whose base identifier it has provisioned earlier
\* in its batch
BaseProvisionedEarlier(m) ==
  /\ OnSuffixedItem(m)
  /\ BaseOf(jobNo(cyc[m])) \in cyc[m].tried \ cyc[m].failed

\* the loop of cycle m goes from one item to a later one, or from the last to the end
NextItem(m) ==
  OnItem(cyc[m]) /\ PositionOf(cyc'[m]) # PositionOf(cyc[m]) /\ cyc'[m].outcome # "crashed"

\* the items of a cycle are processed one after the other: the loop only moves forward,
\* and it leaves an item in the step that answers the last call made for it, a
\* screening call that drops the item or the call that ends its provisioning
Sequential(m) ==
  /\ OnItem(cyc[m]) /\ cyc'[m].pc # "done" => PositionOf(cyc'[m]) >= PositionOf(cyc[m])
  /\ NextItem(m) =>
       /\ PositionOf(cyc'[m]) > PositionOf(cyc[m])
       /\ Dropped(m) \/ ProvisionEnds(m)
       /\ ProvisionEnds(m) => lastLog'.result \in {"Materialized", "Failed"}
       /\ ProvisionEnds(m) /\ lastLog'.result = "Materialized" =>
            Target(cyc[m]) \in storage'

----------------------------------------------------------------------------
\* C26 as stated: no polling cycle is started before the startup resolution of the team
\* member and the destination mapping has completed
C26_NoCycleBeforeResolution ==
  [][\A m \in Minutes : CycleStarts(m) => startup = "done"]_vars

\* C26 amended: the resolution runs once (what it has resolved is never changed after
\* it has ended), and a cycle that starts before it has ended is skipped at the
\* precondition checks: a cycle goes on to the credential and the fetch only after the
\* resolution has ended with the team member and all destinations resolved
C26_NoCycleProceedsBeforeResolution ==
  [][/\ startup = "done" => UNCHANGED <<startup, teamMemberId, folderIds>>
     /\ \A m \in Minutes :
          CycleStarts(m) =>
            IF startup = "done" /\ folderIds.found = Keys
                 /\ teamMemberId \notin {"undefined", Null}
            THEN cyc'[m].pc = "readTokens"
            ELSE /\ cyc'[m].pc = "done" /\ cyc'[m].outcome = "skipped"
                 /\ cyc'[m].calls = [token |-> 0, fetch |-> 0, storage |-> 0]
                 /\ UNCHANGED <<lastChecked, storage, tokenFile>>]_vars

\* a cycle that started during the resolution, after the team member was resolved, was
\* skipped, and a later one is past the precondition checks
C26_Witness ==
  \E m, n \in Minutes :
    /\ m < n
    /\ cyc[m].outcome = "skipped" /\ teamMemberId \notin {"undefined", Null}
    /\ cyc[n].pc \notin {"idle", "done"}
    /\ startup = "done"

----------------------------------------------------------------------------
\* C27: for an identifier without a suffix, a destination holds at most one folder whose
\* name starts with "<identifier> - ", whatever cycles have run and whatever the
\* tracking system has reported the item's title to be
C27_OneFolderPerIdentifier ==
  \A f, g \in storage :
    /\ f.parent = g.parent
    /\ FolderIdentifier(f.name) = FolderIdentifier(g.name)
    /\ ~Includes(FolderIdentifier(f.name), <<"_">>)
    => f = g

\* C27 in the runs in which no two cycles were ever active together (fails as well)
C27_WithoutOverlap == overlap \/ C27_OneFolderPerIdentifier

----------------------------------------------------------------------------
\* C28: no item content blocks progress: a cycle whose fetch was answered by a response
\* that could be parsed is not aborted by an item of the batch, whether malformed or
\* not: it ends as a completed batch and with lastChecked advanced
C28_NoItemBlocksProgress ==
  \A m \in Minutes :
    cyc[m].pc = "done" /\ cyc[m].response = "parsed" =>
      cyc[m].outcome = "completed" /\ cyc[m].lc1 > cyc[m].lc0

\* why the block lasts: the cycle that a malformed item aborts leaves lastChecked
\* alone, so the next query asks from the same instant and is answered with the same
\* item again; and only a malformed item of the batch aborts a cycle after the fetch
C28_AbortKeepsWindow ==
  [][\A m \in Minutes :
       cyc[m].outcome # "crashed" /\ cyc'[m].outcome = "crashed" =>
         /\ UNCHANGED lastChecked
         /\ cyc'[m].lc1 = lastChecked
         /\ \E i \in 1..Len(cyc'[m].fetched) : Malformed(cyc'[m].fetched[i])]_vars

----------------------------------------------------------------------------
\* the refresh tokens the endpoint has successfully exchanged: issued, and replaced
\* by the credential of a granted refresh
Exchanged == (1..tokenEndpoint.issued) \ tokenEndpoint.valid

\* cycle m sends a refresh request in this step
SubmitsRefresh(m) == cyc[m].pc # "refresh" /\ cyc'[m].pc = "refresh"

\* C29: a refresh token the endpoint has successfully exchanged is never submitted
\* again: whenever a cycle sends a refresh request, the refresh token it sends is not
\* one the endpoint has exchanged before, because the credential file held the new
\* refresh token before this refresh started
C29_ExchangedTokenNotResubmitted ==
  [][\A m \in Minutes :
       SubmitsRefresh(m) => cyc'[m].tokens.refresh_token \notin Exchanged]_vars

\* the same without overlapping cycles and without a callback of the authorization
\* flow in progress: the write of the new credential failing is enough
C29_WithoutOverlap ==
  [][\A m \in Minutes :
       SubmitsRefresh(m) /\ ~overlap' /\ oauth.pc = "idle" =>
         cyc'[m].tokens.refresh_token \notin Exchanged]_vars

\* the read-exchange-write sequence of a refresh is interleaved with nothing that
\* reads or writes the credential: while a cycle is between its read and the end of
\* its write, no other cycle and no callback is in that section
C29_RefreshNotInterleaved ==
  \A m \in Minutes :
    cyc[m].pc \in {"refresh", "writeTokens"} =>
      /\ oauth.pc \notin {"exchange", "write"}
      /\ \A n \in Minutes \ {m} : cyc[n].pc \notin {"readTokens", "refresh", "writeTokens"}

=============================================================================
